---- MODULE Spec2Model ----
(***************************************************************************)
(* Universal Device Diagnostics: the diagnostic runners of the Android and *)
(* Windows agents, their test functions, and the summary computed by the   *)
(* backend's run_diagnostics.                                              *)
(*                                                                         *)
(* Conventions.  A Python str read from a probe is a sequence of           *)
(* one-character strings (a "text"), so that isdigit, int, lower, strip,   *)
(* split and the substring test are computed character by character.       *)
(* Messages the program only writes (explanations, advisories) are TLA+    *)
(* strings.  A float kept to one decimal is an integer number of tenths;   *)
(* a confidence is an integer number of hundredths.  The timestamp of a    *)
(* TestResult is left out: no operation reads it.                          *)
(***************************************************************************)
EXTENDS Integers, Sequences, FiniteSets, TLC

VARIABLES
    os,        \* device.os of the registered device the request names
    tests,     \* request.tests: the requested test ids, in order
    pc,        \* run_diagnostics: Dispatch, Running, Summarised, Http200, Http500,
               \* Http501
    phase,     \* the runner: Init, ConnectivityCheck, Executing, Unreachable,
               \* Completed, Raised; NoRunner when no runner was called
    idx,       \* the position in tests of the loop's next iteration
    results,   \* the runner's list `results`
    probeLog,  \* the probe commands issued so far, in order
    handed,    \* what the environment handed each iteration of the loop, in
               \* order (kept for the properties; the program does not keep it)
    summary    \* None, or Some(summary) once run_diagnostics has computed it

vars == <<os, tests, pc, phase, idx, results, probeLog, handed, summary>>

(***************************************************************************)
(* Texts                                                                   *)
(***************************************************************************)
NL == "\n"

Whitespace == {" ", "\t", "\n", "\r"}

DigitChars == <<"0", "1", "2", "3", "4", "5", "6", "7", "8", "9">>

UpperChars == <<"A", "B", "C", "D", "E", "F", "G", "H", "I", "J", "K", "L", "M",
                "N", "O", "P", "Q", "R", "S", "T", "U", "V", "W", "X", "Y", "Z">>

LowerChars == <<"a", "b", "c", "d", "e", "f", "g", "h", "i", "j", "k", "l", "m",
                "n", "o", "p", "q", "r", "s", "t", "u", "v", "w", "x", "y", "z">>

IsDigitChar(c) == \E i \in 1..Len(DigitChars) : DigitChars[i] = c

DigitVal(c) == (CHOOSE i \in 1..Len(DigitChars) : DigitChars[i] = c) - 1

\* str.lower() on one character
LowerChar(c) ==
    IF \E i \in 1..Len(UpperChars) : UpperChars[i] = c
    THEN LowerChars[CHOOSE i \in 1..Len(UpperChars) : UpperChars[i] = c]
    ELSE c

\* str.lower()
Lower(t) == [i \in 1..Len(t) |-> LowerChar(t[i])]

\* str.isdigit(): non-empty and every character a digit
IsDigit(t) == Len(t) > 0 /\ \A i \in 1..Len(t) : IsDigitChar(t[i])

\* the value of a text of digits
RECURSIVE DigitsValue(_)
DigitsValue(t) ==
    IF t = <<>> THEN 0
    ELSE DigitsValue(SubSeq(t, 1, Len(t) - 1)) * 10 + DigitVal(t[Len(t)])

\* str.strip(): leading and trailing whitespace removed
RECURSIVE LStrip(_)
LStrip(t) == IF t # <<>> /\ t[1] \in Whitespace THEN LStrip(Tail(t)) ELSE t

RECURSIVE RStrip(_)
RStrip(t) ==
    IF t # <<>> /\ t[Len(t)] \in Whitespace
    THEN RStrip(SubSeq(t, 1, Len(t) - 1)) ELSE t

Strip(t) == RStrip(LStrip(t))

\* t[i-1:j] of Python: the slice is cut to the text
Slice(t, i, j) ==
    SubSeq(t, IF i < 1 THEN 1 ELSE i, IF j > Len(t) THEN Len(t) ELSE j)

\* `pat in t`
Contains(t, pat) ==
    \E i \in 1..(Len(t) - Len(pat) + 1) : SubSeq(t, i, i + Len(pat) - 1) = pat

\* the position of the first occurrence of character c in t, 0 when absent
FirstIndex(t, c) ==
    IF \E i \in 1..Len(t) : t[i] = c
    THEN CHOOSE i \in 1..Len(t) : t[i] = c /\ \A j \in 1..(i - 1) : t[j] # c
    ELSE 0

\* str.split(sep) for a one-character separator: always at least one piece
RECURSIVE Split(_, _)
Split(t, sep) ==
    LET i == FirstIndex(t, sep)
    IN IF i = 0 THEN <<t>>
       ELSE <<SubSeq(t, 1, i - 1)>> \o Split(SubSeq(t, i + 1, Len(t)), sep)

\* str.split(): the maximal runs of non-whitespace characters
RECURSIVE SplitWords(_)
SplitWords(t) ==
    LET s == LStrip(t)
    IN IF s = <<>> THEN <<>>
       ELSE LET n == IF \E i \in 1..Len(s) : s[i] \in Whitespace
                     THEN (CHOOSE i \in 1..Len(s) :
                              s[i] \in Whitespace
                              /\ \A j \in 1..(i - 1) : s[j] \notin Whitespace) - 1
                     ELSE Len(s)
            IN <<SubSeq(s, 1, n)>> \o SplitWords(SubSeq(s, n + 1, Len(s)))

\* a text as the string it spells (for f-string interpolation)
RECURSIVE Join(_)
Join(t) == IF t = <<>> THEN "" ELSE t[1] \o Join(Tail(t))

\* the lines of an output, joined by newlines
RECURSIVE JoinLines(_)
JoinLines(ls) ==
    IF ls = <<>> THEN <<>>
    ELSE IF Len(ls) = 1 THEN ls[1]
    ELSE ls[1] \o <<NL>> \o JoinLines(Tail(ls))

\* int(text) succeeds: optional surrounding whitespace, optional sign, digits
IntParses(t) ==
    LET s == Strip(t)
        body == IF s # <<>> /\ s[1] \in {"+", "-"} THEN Tail(s) ELSE s
    IN IsDigit(body)

\* int(text), where it succeeds
IntOf(t) ==
    LET s == Strip(t)
    IN IF s[1] = "-" THEN 0 - DigitsValue(Tail(s))
       ELSE IF s[1] = "+" THEN DigitsValue(Tail(s))
       ELSE DigitsValue(s)

\* round(n / d, 0) for n >= 0, d > 0: to nearest, a tie to the even neighbour
RoundDiv(n, d) ==
    LET q == n \div d
        r == n % d
    IN IF 2 * r > d \/ (2 * r = d /\ q % 2 = 1) THEN q + 1 ELSE q

\* a number of tenths as Python prints the float: 825 -> "82.5"
Fmt1(n) == ToString(n \div 10) \o "." \o ToString(n % 10)

(***************************************************************************)
(* Literal texts of the source                                             *)
(***************************************************************************)
Literal ==
    [timed_out_adb |->
        <<"A", "D", "B", " ", "c", "o", "m", "m", "a", "n", "d", " ", "t", "i", "m", "e", "d", " ", "o", "u", "t">>,
     adb_not_found |->
        <<"A", "D", "B", " ", "n", "o", "t", " ", "f", "o", "u", "n", "d", ".", " ", "P", "l", "e", "a", "s", "e", " ", "i", "n", "s", "t", "a", "l", "l", " ", "A", "n", "d", "r", "o", "i", "d", " ", "S", "D", "K", " ", "p", "l", "a", "t", "f", "o", "r", "m", "-", "t", "o", "o", "l", "s">>,
     timed_out |->
        <<"C", "o", "m", "m", "a", "n", "d", " ", "t", "i", "m", "e", "d", " ", "o", "u", "t">>,
     tab_device |->
        <<"\t", "d", "e", "v", "i", "c", "e">>,
     level |->
        <<"l", "e", "v", "e", "l">>,
     health |->
        <<"h", "e", "a", "l", "t", "h">>,
     status |->
        <<"s", "t", "a", "t", "u", "s">>,
     temperature |->
        <<"t", "e", "m", "p", "e", "r", "a", "t", "u", "r", "e">>,
     voltage |->
        <<"v", "o", "l", "t", "a", "g", "e">>,
     Unknown |->
        <<"U", "n", "k", "n", "o", "w", "n">>,
     good |->
        <<"g", "o", "o", "d">>,
     charging |->
        <<"c", "h", "a", "r", "g", "i", "n", "g">>,
     slash_data |->
        <<"/", "d", "a", "t", "a">>,
     userdata |->
        <<"u", "s", "e", "r", "d", "a", "t", "a">>,
     accelerometer |->
        <<"a", "c", "c", "e", "l", "e", "r", "o", "m", "e", "t", "e", "r">>,
     gyroscope |->
        <<"g", "y", "r", "o", "s", "c", "o", "p", "e">>,
     magnetometer |->
        <<"m", "a", "g", "n", "e", "t", "o", "m", "e", "t", "e", "r">>,
     proximity |->
        <<"p", "r", "o", "x", "i", "m", "i", "t", "y">>,
     light |->
        <<"l", "i", "g", "h", "t">>,
     pressure |->
        <<"p", "r", "e", "s", "s", "u", "r", "e">>,
     wifi_is_enabled |->
        <<"W", "i", "-", "F", "i", " ", "i", "s", " ", "e", "n", "a", "b", "l", "e", "d">>,
     mWifiEnabled_true |->
        <<"m", "W", "i", "f", "i", "E", "n", "a", "b", "l", "e", "d", ":", " ", "t", "r", "u", "e">>,
     CONNECTED_CONNECTED |->
        <<"C", "O", "N", "N", "E", "C", "T", "E", "D", "/", "C", "O", "N", "N", "E", "C", "T", "E", "D">>,
     state_CONNECTED |->
        <<"s", "t", "a", "t", "e", ":", " ", "C", "O", "N", "N", "E", "C", "T", "E", "D">>,
     DATA_CONNECTED |->
        <<"D", "A", "T", "A", "_", "C", "O", "N", "N", "E", "C", "T", "E", "D">>,
     EstimatedChargeRemaining |->
        <<"E", "s", "t", "i", "m", "a", "t", "e", "d", "C", "h", "a", "r", "g", "e", "R", "e", "m", "a", "i", "n", "i", "n", "g">>,
     errno2 |->
        <<"[", "E", "r", "r", "n", "o", " ", "2", "]", " ", "N", "o", " ", "s", "u", "c", "h", " ", "f", "i", "l", "e", " ", "o", "r", " ", "d", "i", "r", "e", "c", "t", "o", "r", "y">>]

(***************************************************************************)
(* TestResult (agents/android/diagnostics.py and agents/windows/...: the   *)
(* two classes are the same)                                               *)
(***************************************************************************)
\* an optional argument: None, or Some(value)
None == <<>>

Some(x) == <<x>>

\* the empty dict {}
EmptyDict == [k \in {} |-> 0]

\* DefaultConfidence changed: `confidence: float = 1.0` in the signature
FullConfidence == 10 * 10

\* the defaults of TestResult.__init__
DefaultExplanation == ""

DefaultConfidence == 0

TestResult(test_id, category, status, metrics, explanation, confidence, advisories) ==
    [test_id     |-> test_id,
     category    |-> category,
     status      |-> status,
     metrics     |-> IF metrics = None THEN EmptyDict ELSE metrics[1],
     explanation |-> explanation,
     confidence  |-> confidence,
     advisories  |-> IF advisories = None THEN <<>> ELSE advisories[1]]

(***************************************************************************)
(* The probe gateway.  `raw` is what subprocess.run does: it exits with    *)
(* an output and a return code, exceeds the timeout, finds no executable,  *)
(* or fails in another way.                                                *)
(***************************************************************************)
Exited(stdout, stderr, returncode) ==
    [kind |-> "exit", stdout |-> stdout, stderr |-> stderr, returncode |-> returncode]

TimedOut == [kind |-> "timeout"]

NotFound == [kind |-> "notfound"]

Failed(message) == [kind |-> "oserror", message |-> message]

run_adb_command(raw) ==
    CASE raw.kind = "exit" ->
            [stdout |-> Strip(raw.stdout), stderr |-> Strip(raw.stderr),
             code |-> raw.returncode]
      [] raw.kind = "timeout" ->
            [stdout |-> <<>>, stderr |-> Literal.timed_out_adb, code |-> -1]
      [] raw.kind = "notfound" ->
            [stdout |-> <<>>, stderr |-> Literal.adb_not_found, code |-> -1]
      [] OTHER ->
            [stdout |-> <<>>, stderr |-> raw.message, code |-> -1]

check_adb_connection(raw) ==
    LET r == run_adb_command(raw)
        lines == Split(r.stdout, NL)
    IN r.code = 0
       /\ \E i \in 2..Len(lines) :
             Strip(lines[i]) # <<>> /\ Contains(lines[i], Literal.tab_device)

(***************************************************************************)
(* test_android_battery.  A test function yields its TestResult and the    *)
(* probe commands it issued.                                               *)
(***************************************************************************)
\* battery_info.get(key): the value of the last "key: value" line, if any
battery_info_get(stdout, key) ==
    LET lines == Split(stdout, NL)
        line(i) == Strip(lines[i])
        colon(i) == FirstIndex(line(i), ":")
        keyOf(i) == Strip(SubSeq(line(i), 1, colon(i) - 1))
        valueOf(i) == Strip(SubSeq(line(i), colon(i) + 1, Len(line(i))))
        hits == {i \in 1..Len(lines) : colon(i) # 0 /\ keyOf(i) = key}
    IN IF hits = {} THEN None
       ELSE Some(valueOf(CHOOSE i \in hits : \A j \in hits : j <= i))

\* lines 108-111: the verdict before any rule
BatteryRule0(level, health) ==
    [health_status |-> "pass",
     explanation   |-> "Battery level: " \o ToString(level) \o "%, Health: "
                       \o Join(health),
     advisories    |-> <<>>]

\* lines 113-116
BatteryRule1(s, health) ==
    IF Lower(health) # Literal.good
    THEN [health_status |-> "warn",
          explanation   |-> s.explanation \o ". Battery health is not optimal.",
          advisories    |-> Append(s.advisories,
                                   "Consider battery replacement if issues persist")]
    ELSE s

\* BatteryRule2 with the threshold moved: `if temp_celsius > 45`
BatteryRule2_above_45(s, temp) ==
    IF temp > 450
    THEN [s EXCEPT !.health_status = "warn",
                   !.advisories = Append(@, "Battery temperature is high ("
                                            \o Fmt1(temp) \o " deg C)")]
    ELSE s

\* lines 118-120 (temp in tenths of a degree; the non-ASCII degree sign of
\* the message is spelled " deg ")
BatteryRule2(s, temp) ==
    IF temp > 400
    THEN [s EXCEPT !.health_status = "warn",
                   !.advisories = Append(@, "Battery temperature is high ("
                                            \o Fmt1(temp) \o " deg C)")]
    ELSE s

\* BatteryRule3 assigning the list instead of appending to it
BatteryRule3_replacing(s, temp) ==
    IF temp > 500
    THEN [s EXCEPT !.health_status = "fail",
                   !.advisories = <<"Critical: Battery overheating detected">>]
    ELSE s

\* lines 122-124
BatteryRule3(s, temp) ==
    IF temp > 500
    THEN [s EXCEPT !.health_status = "fail",
                   !.advisories = Append(@, "Critical: Battery overheating detected")]
    ELSE s

\* lines 126-127
BatteryRule4(s, level, status) ==
    IF level < 15 /\ Lower(status) # Literal.charging
    THEN [s EXCEPT !.advisories = Append(@, "Battery level is low, consider charging")]
    ELSE s

\* BatteryRuleTrace with the two temperature rules in the other order
BatteryRuleTrace_hot_first(level, health, status, temp) ==
    LET s0 == BatteryRule0(level, health)
        s1 == BatteryRule1(s0, health)
        s2 == BatteryRule3(s1, temp)
        s3 == BatteryRule2(s2, temp)
        s4 == BatteryRule4(s3, level, status)
    IN <<s0, s1, s2, s3, s4>>

\* the running verdict after each rule, in the order the code evaluates them
BatteryRuleTrace(level, health, status, temp) ==
    LET s0 == BatteryRule0(level, health)
        s1 == BatteryRule1(s0, health)
        s2 == BatteryRule2(s1, temp)
        s3 == BatteryRule3(s2, temp)
        s4 == BatteryRule4(s3, level, status)
    IN <<s0, s1, s2, s3, s4>>

test_android_battery(env) ==
    IF ~check_adb_connection(env.devices)
    THEN [result |-> TestResult("battery.health", "power", "error", None,
                        "No Android device connected via ADB", DefaultConfidence,
                        Some(<<"Enable USB debugging and connect device">>)),
          probes |-> <<"devices">>]
    ELSE
    LET r == run_adb_command(env.battery)
        probes == <<"devices", "shell dumpsys battery">>
    IN IF r.code # 0
       THEN [result |-> TestResult("battery.health", "power", "error", None,
                           "Could not retrieve battery information",
                           DefaultConfidence, Some(<<"Check ADB permissions">>)),
             probes |-> probes]
       ELSE
       LET levelText == battery_info_get(r.stdout, Literal.level)
           healthText == battery_info_get(r.stdout, Literal.health)
           statusText == battery_info_get(r.stdout, Literal.status)
           tempText == battery_info_get(r.stdout, Literal.temperature)
           voltText == battery_info_get(r.stdout, Literal.voltage)
       IN IF levelText # None /\ ~IntParses(levelText[1])
          THEN \* int() raises ValueError, caught at line 143
               [result |-> TestResult("battery.health", "power", "error", None,
                              "Battery test failed: invalid literal for int() with base 10: '"
                              \o Join(levelText[1]) \o "'",
                              DefaultConfidence, None),
                probes |-> probes]
          ELSE
          LET level == IF levelText = None THEN 0 ELSE IntOf(levelText[1])
              health == IF healthText = None THEN Literal.Unknown ELSE healthText[1]
              status == IF statusText = None THEN Literal.Unknown ELSE statusText[1]
              temperature == IF tempText = None THEN <<"0">> ELSE tempText[1]
              voltage == IF voltText = None THEN <<"0">> ELSE voltText[1]
              temp_celsius == IF IsDigit(temperature) THEN DigitsValue(temperature) ELSE 0
              voltage_mv == IF IsDigit(voltage) THEN DigitsValue(voltage) ELSE 0
              trace == BatteryRuleTrace(level, health, status, temp_celsius)
              final == trace[Len(trace)]
          IN [result |-> TestResult("battery.health", "power", final.health_status,
                            Some([level_percentage    |-> level,
                                  health              |-> health,
                                  status              |-> status,
                                  temperature_celsius |-> temp_celsius,
                                  voltage_mv          |-> voltage_mv]),
                            final.explanation, 90, Some(final.advisories)),
              probes |-> probes]

(***************************************************************************)
(* test_android_storage                                                    *)
(***************************************************************************)
\* line 212 (usage in tenths of a percent)
android_storage_status(usage_pct) ==
    IF usage_pct < 800 THEN "pass" ELSE IF usage_pct < 900 THEN "warn" ELSE "fail"

\* lines 182-199: the storage_info of one matching line with at least 4 parts
storage_info_of(parts) ==
    LET total_kb == IF IsDigit(parts[2]) THEN DigitsValue(parts[2]) ELSE 0
        used_kb == IF IsDigit(parts[3]) THEN DigitsValue(parts[3]) ELSE 0
        available_kb == IF IsDigit(parts[4]) THEN DigitsValue(parts[4]) ELSE 0
    IN [total_gb         |-> RoundDiv(total_kb * 10, 1024 * 1024),
        used_gb          |-> RoundDiv(used_kb * 10, 1024 * 1024),
        available_gb     |-> RoundDiv(available_kb * 10, 1024 * 1024),
        usage_percentage |-> IF total_kb > 0 THEN RoundDiv(used_kb * 1000, total_kb)
                             ELSE 0,
        \* not a key of the dict: whether usage_percentage is the float of the
        \* division or the int 0 of the else branch, which print differently
        usage_is_float   |-> total_kb > 0]

\* lines 177-183: the parts of the first line naming /data or userdata that
\* has at least 4 of them
df_matched_parts(stdout) ==
    LET lines == Split(stdout, NL)
        matches(i) == (Contains(lines[i], Literal.slash_data)
                       \/ Contains(lines[i], Literal.userdata))
                      /\ Len(SplitWords(lines[i])) >= 4
        hits == {i \in 1..Len(lines) : matches(i)}
    IN IF hits = {} THEN None
       ELSE Some(SplitWords(lines[CHOOSE i \in hits : \A j \in hits : i <= j]))

\* lines 177-202: the storage_info of the loop over the lines
parse_df(stdout) ==
    LET parts == df_matched_parts(stdout)
    IN IF parts = None THEN None ELSE Some(storage_info_of(parts[1]))

test_android_storage(env) ==
    IF ~check_adb_connection(env.devices)
    THEN [result |-> TestResult("storage.health", "storage", "error", None,
                        "No Android device connected via ADB", DefaultConfidence, None),
          probes |-> <<"devices">>]
    ELSE
    LET first == run_adb_command(env.df)
        r == IF first.code # 0 THEN run_adb_command(env.diskstats) ELSE first
        probes == IF first.code # 0
                  THEN <<"devices", "shell df /data", "shell dumpsys diskstats">>
                  ELSE <<"devices", "shell df /data">>
    IN IF r.code # 0
       THEN [result |-> TestResult("storage.health", "storage", "error", None,
                           "Could not retrieve storage information",
                           DefaultConfidence, None),
             probes |-> probes]
       ELSE
       LET parsed == parse_df(r.stdout)
       IN IF parsed = None
          THEN [result |-> TestResult("storage.health", "storage", "error", None,
                              "Could not parse storage information",
                              DefaultConfidence, None),
                probes |-> probes]
          ELSE
          LET info == parsed[1]
              storage_info == [total_gb         |-> info.total_gb,
                               used_gb          |-> info.used_gb,
                               available_gb     |-> info.available_gb,
                               usage_percentage |-> info.usage_percentage]
              usage_pct == info.usage_percentage
              shown == IF info.usage_is_float THEN Fmt1(usage_pct) ELSE "0"
              status == android_storage_status(usage_pct)
              explanation ==
                  CASE status = "pass" ->
                          "Storage usage is healthy at " \o shown \o "%. "
                          \o Fmt1(info.available_gb) \o " GB available."
                    [] status = "warn" ->
                          "Storage is getting full at " \o shown
                          \o "% usage. Consider cleanup."
                    [] OTHER ->
                          "Storage is critically full at " \o shown
                          \o "% usage. Immediate cleanup needed."
              advisories ==
                  (IF usage_pct > 850 THEN <<"Clear cache, photos, or unused apps">>
                   ELSE <<>>)
                  \o (IF usage_pct > 900
                      THEN <<"Critical: Free up space to avoid app crashes">>
                      ELSE <<>>)
          IN [result |-> TestResult("storage.health", "storage", status,
                            Some(storage_info), explanation, 85, Some(advisories)),
              probes |-> probes]

(***************************************************************************)
(* test_android_sensors                                                    *)
(***************************************************************************)
common_sensors ==
    <<Literal.accelerometer, Literal.gyroscope, Literal.magnetometer, Literal.proximity,
      Literal.light, Literal.pressure, Literal.temperature>>

\* ', '.join(names)
RECURSIVE JoinComma(_)
JoinComma(names) ==
    IF names = <<>> THEN ""
    ELSE IF Len(names) = 1 THEN names[1]
    ELSE names[1] \o ", " \o JoinComma(Tail(names))

test_android_sensors(env) ==
    IF ~check_adb_connection(env.devices)
    THEN [result |-> TestResult("sensors.test", "sensors", "error", None,
                        "No Android device connected via ADB", DefaultConfidence, None),
          probes |-> <<"devices">>]
    ELSE
    LET r == run_adb_command(env.sensorservice)
        probes == <<"devices", "shell dumpsys sensorservice">>
    IN IF r.code # 0
       THEN [result |-> TestResult("sensors.test", "sensors", "error", None,
                           "Could not retrieve sensor information",
                           DefaultConfidence, None),
             probes |-> probes]
       ELSE
       LET stdout_lower == Lower(r.stdout)
           found == SelectSeq(common_sensors, LAMBDA sensor : Contains(stdout_lower, sensor))
           sensors_found == [i \in 1..Len(found) |-> Join(found[i])]
           sensor_count == Len(sensors_found)
           status == IF sensor_count >= 5 THEN "pass"
                     ELSE IF sensor_count >= 3 THEN "warn" ELSE "fail"
           explanation ==
               CASE status = "pass" ->
                       "Found " \o ToString(sensor_count)
                       \o " sensors working properly: "
                       \o JoinComma(Slice(sensors_found, 1, 5))
                 [] status = "warn" ->
                       "Found " \o ToString(sensor_count)
                       \o " sensors. Some sensors may not be available."
                 [] OTHER ->
                       "Only " \o ToString(sensor_count)
                       \o " sensors detected. Device may have sensor issues."
           advisories == IF sensor_count < 3
                         THEN <<"Check if device requires sensor calibration">>
                         ELSE <<>>
       IN [result |-> TestResult("sensors.test", "sensors", status,
                         Some([sensors_found |-> sensors_found,
                               sensor_count  |-> sensor_count]),
                         explanation, 75, Some(advisories)),
           probes |-> probes]

(***************************************************************************)
(* test_android_connectivity                                               *)
(***************************************************************************)
test_android_connectivity(env) ==
    IF ~check_adb_connection(env.devices)
    THEN [result |-> TestResult("network.connectivity", "network", "error", None,
                        "No Android device connected via ADB", DefaultConfidence, None),
          probes |-> <<"devices">>]
    ELSE
    LET r == run_adb_command(env.wifi)
    IN IF r.code # 0
       THEN [result |-> TestResult("network.connectivity", "network", "error", None,
                           "Could not retrieve network information",
                           DefaultConfidence, None),
             probes |-> <<"devices", "shell dumpsys wifi">>]
       ELSE
       LET wifi_enabled == Contains(r.stdout, Literal.wifi_is_enabled)
                           \/ Contains(r.stdout, Literal.mWifiEnabled_true)
           wifi_connected == Contains(r.stdout, Literal.CONNECTED_CONNECTED)
                             \/ Contains(r.stdout, Literal.state_CONNECTED)
           mobile == run_adb_command(env.telephony)
           mobile_data == IF mobile.code = 0
                          THEN Contains(mobile.stdout, Literal.DATA_CONNECTED)
                          ELSE FALSE
           status == IF wifi_connected \/ mobile_data THEN "pass"
                     ELSE IF wifi_enabled THEN "warn" ELSE "fail"
           explanation ==
               CASE status = "pass" ->
                       "Network connectivity is working."
                       \o (IF wifi_connected THEN " Wi-Fi connected." ELSE "")
                       \o (IF mobile_data THEN " Mobile data available." ELSE "")
                 [] status = "warn" ->
                       "Wi-Fi is enabled but not connected to a network."
                 [] OTHER -> "No network connectivity detected."
           advisories == IF ~wifi_connected /\ ~mobile_data
                         THEN <<"Check Wi-Fi password or mobile data settings">>
                         ELSE <<>>
       IN [result |-> TestResult("network.connectivity", "network", status,
                         Some([wifi_enabled   |-> wifi_enabled,
                               wifi_connected |-> wifi_connected,
                               mobile_data    |-> mobile_data]),
                         explanation, 80, Some(advisories)),
           probes |-> <<"devices", "shell dumpsys wifi",
                        "shell dumpsys telephony.registry">>]

(***************************************************************************)
(* The Windows agent: run_command and the four test functions.  psutil is  *)
(* part of the environment: a call returns its values or raises.           *)
(***************************************************************************)
run_command(raw) ==
    CASE raw.kind = "exit" ->
            [stdout |-> raw.stdout, stderr |-> raw.stderr, code |-> raw.returncode]
      [] raw.kind = "timeout" ->
            [stdout |-> <<>>, stderr |-> Literal.timed_out, code |-> -1]
      [] raw.kind = "notfound" ->
            [stdout |-> <<>>, stderr |-> Literal.errno2, code |-> -1]
      [] OTHER ->
            [stdout |-> <<>>, stderr |-> raw.message, code |-> -1]

\* the first position at or after i that holds no whitespace (Len(t) + 1 if none)
RECURSIVE SkipSpace(_, _)
SkipSpace(t, i) ==
    IF i <= Len(t) /\ t[i] \in Whitespace THEN SkipSpace(t, i + 1) ELSE i

\* the end of the run of digits that starts at i
RECURSIVE DigitRunEnd(_, _)
DigitRunEnd(t, i) ==
    IF i + 1 <= Len(t) /\ IsDigitChar(t[i + 1]) THEN DigitRunEnd(t, i + 1) ELSE i

\* re.search(r'EstimatedChargeRemaining\s*:\s*(\d+)', t): group 1 of the
\* leftmost match as an int, or None
charge_match(t) ==
    LET n == Len(Literal.EstimatedChargeRemaining)
        colon(i) == SkipSpace(t, i + n)
        digit(i) == SkipSpace(t, colon(i) + 1)
        hit(i) == Slice(t, i, i + n - 1) = Literal.EstimatedChargeRemaining
                  /\ colon(i) <= Len(t) /\ t[colon(i)] = ":"
                  /\ digit(i) <= Len(t) /\ IsDigitChar(t[digit(i)])
        hits == {i \in 1..Len(t) : hit(i)}
    IN IF hits = {} THEN None
       ELSE LET i == CHOOSE k \in hits : \A j \in hits : k <= j
            IN Some(DigitsValue(SubSeq(t, digit(i), DigitRunEnd(t, digit(i)))))

\* lines 86-87: the capacities the test assumes
design_capacity == 50000

\* current_capacity of a worn battery: 60% of the design capacity
current_capacity_worn == 30 * 1000

current_capacity == 42000

test_battery_health(env) ==
    LET r == run_command(env.powercfg)
    IN IF r.code # 0
       THEN [result |-> TestResult("battery.health", "power", "error", None,
                           "Could not generate battery report", DefaultConfidence,
                           Some(<<"Battery diagnostic tools may not be available">>)),
             probes |-> <<"powercfg /batteryreport">>]
       ELSE
       LET ps == run_command(env.powershell)
           probes == <<"powercfg /batteryreport", "powershell Get-WmiObject Win32_Battery">>
       IN IF ps.code = 0 /\ Contains(ps.stdout, Literal.EstimatedChargeRemaining)
          THEN
          LET current_charge == charge_match(ps.stdout)
              health_percentage == RoundDiv(current_capacity * 1000, design_capacity)
              status == IF health_percentage > 800 THEN "pass"
                        ELSE IF health_percentage > 600 THEN "warn" ELSE "fail"
              explanation ==
                  CASE status = "pass" ->
                          "Battery health is good at " \o Fmt1(health_percentage)
                          \o "%. Expected runtime should be normal."
                    [] status = "warn" ->
                          "Battery health is declining at " \o Fmt1(health_percentage)
                          \o "%. You may notice shorter runtime."
                    [] OTHER ->
                          "Battery health is poor at " \o Fmt1(health_percentage)
                          \o "%. Consider replacing the battery."
              advisories ==
                  (IF health_percentage < 800
                   THEN <<"Consider replacing battery for optimal performance">>
                   ELSE <<>>)
                  \o (IF health_percentage < 600
                      THEN <<"Battery replacement recommended soon">> ELSE <<>>)
          IN [result |-> TestResult("battery.health", "power", status,
                            Some([design_capacity_mwh       |-> design_capacity,
                                  current_capacity_mwh      |-> current_capacity,
                                  health_percentage         |-> health_percentage,
                                  current_charge_percentage |-> current_charge]),
                            explanation, 85, Some(advisories)),
              probes |-> probes]
          ELSE [result |-> TestResult("battery.health", "power", "error", None,
                              "Could not read battery information", DefaultConfidence,
                              Some(<<"No battery detected or battery information unavailable">>)),
                probes |-> probes]

\* line 152 (usage in tenths of a percent)
windows_storage_status(usage_percentage) ==
    IF usage_percentage < 800 THEN "pass"
    ELSE IF usage_percentage < 900 THEN "warn" ELSE "fail"

\* 1024**3
GiB == 1024 * 1024 * 1024

test_storage_health(env) ==
    LET r == run_command(env.wmic)
        probes == <<"wmic diskdrive">>
    IN IF r.code = 0 /\ r.stdout # <<>>
       THEN
       IF env.disk_usage.kind = "raise"
       THEN [result |-> TestResult("storage.health", "storage", "error", None,
                           "Storage test failed: " \o env.disk_usage.message,
                           DefaultConfidence, None),
             probes |-> probes]
       ELSE IF env.disk_usage.total = 0
       THEN \* ZeroDivisionError at line 149, caught at line 184
            [result |-> TestResult("storage.health", "storage", "error", None,
                           "Storage test failed: division by zero",
                           DefaultConfidence, None),
             probes |-> probes]
       ELSE
       LET disk_usage == env.disk_usage
           total_gb == RoundDiv(disk_usage.total * 10, GiB)
           used_gb == RoundDiv(disk_usage.used * 10, GiB)
           free_gb == RoundDiv(disk_usage.free * 10, GiB)
           usage_percentage == RoundDiv(disk_usage.used * 1000, disk_usage.total)
           status == windows_storage_status(usage_percentage)
           explanation ==
               CASE status = "pass" ->
                       "Storage health looks good. " \o Fmt1(usage_percentage)
                       \o "% used with " \o Fmt1(free_gb) \o " GB free."
                 [] status = "warn" ->
                       "Storage is getting full at " \o Fmt1(usage_percentage)
                       \o "% usage. Consider cleanup."
                 [] OTHER ->
                       "Storage is critically full at " \o Fmt1(usage_percentage)
                       \o "% usage. Immediate cleanup needed."
           advisories ==
               (IF usage_percentage > 850
                THEN <<"Clean up temporary files and unused programs">> ELSE <<>>)
               \o (IF usage_percentage > 900
                   THEN <<"Critical: Free up space immediately to avoid system issues">>
                   ELSE <<>>)
       IN [result |-> TestResult("storage.health", "storage", status,
                         Some([total_gb         |-> total_gb,
                               used_gb          |-> used_gb,
                               free_gb          |-> free_gb,
                               usage_percentage |-> usage_percentage]),
                         explanation, 95, Some(advisories)),
           probes |-> probes]
       ELSE [result |-> TestResult("storage.health", "storage", "error", None,
                           "Could not retrieve storage information",
                           DefaultConfidence, None),
             probes |-> probes]

\* line 202 (usage in tenths of a percent)
cpu_status(cpu_percent) ==
    IF cpu_percent < 800 THEN "pass" ELSE IF cpu_percent < 950 THEN "warn" ELSE "fail"

test_cpu_temperature(env) ==
    IF env.cpu.kind = "raise"
    THEN [result |-> TestResult("cpu.temperature", "performance", "error", None,
                        "CPU test failed: " \o env.cpu.message, DefaultConfidence, None),
          probes |-> <<>>]
    ELSE
    LET cpu_percent == env.cpu.percent
        status == cpu_status(cpu_percent)
        explanation ==
            CASE status = "pass" ->
                    "CPU performance is normal. Current usage: " \o Fmt1(cpu_percent) \o "%"
              [] status = "warn" ->
                    "CPU usage is high at " \o Fmt1(cpu_percent)
                    \o "%. Check for resource-heavy programs."
              [] OTHER ->
                    "CPU usage is critical at " \o Fmt1(cpu_percent)
                    \o "%. System may be overloaded."
        advisories ==
            (IF cpu_percent > 900
             THEN <<"Close unnecessary programs to reduce CPU load">> ELSE <<>>)
            \o (IF cpu_percent > 950
                THEN <<"Critical: Check for malware or system issues">> ELSE <<>>)
        base == [cpu_usage_percentage |-> cpu_percent, cpu_cores |-> env.cpu.count]
        metrics == IF env.cpu.freq # None
                   THEN [cpu_usage_percentage |-> cpu_percent,
                         cpu_cores            |-> env.cpu.count,
                         cpu_frequency_mhz    |-> RoundDiv(env.cpu.freq[1], 10)]
                   ELSE base
    IN [result |-> TestResult("cpu.temperature", "performance", status,
                      Some(metrics), explanation, 80, Some(advisories)),
        probes |-> <<>>]

\* line 249 (usage in tenths of a percent)
memory_status(usage_percentage) ==
    IF usage_percentage < 800 THEN "pass"
    ELSE IF usage_percentage < 900 THEN "warn" ELSE "fail"

test_memory(env) ==
    IF env.memory.kind = "raise"
    THEN [result |-> TestResult("memory.test", "performance", "error", None,
                        "Memory test failed: " \o env.memory.message,
                        DefaultConfidence, None),
          probes |-> <<>>]
    ELSE
    LET memory == env.memory
        total_gb == RoundDiv(memory.total * 10, GiB)
        available_gb == RoundDiv(memory.available * 10, GiB)
        used_gb == RoundDiv(memory.used * 10, GiB)
        usage_percentage == memory.percent
        status == memory_status(usage_percentage)
        explanation ==
            CASE status = "pass" ->
                    "Memory usage is normal at " \o Fmt1(usage_percentage) \o "%. "
                    \o Fmt1(available_gb) \o " GB available."
              [] status = "warn" ->
                    "Memory usage is high at " \o Fmt1(usage_percentage)
                    \o "%. Consider closing some programs."
              [] OTHER ->
                    "Memory usage is critical at " \o Fmt1(usage_percentage)
                    \o "%. System may be slow."
        advisories ==
            (IF usage_percentage > 850
             THEN <<"Close unnecessary programs to free up memory">> ELSE <<>>)
            \o (IF usage_percentage > 900
                THEN <<"Critical: System performance may be severely impacted">>
                ELSE <<>>)
    IN [result |-> TestResult("memory.test", "performance", status,
                      Some([total_gb         |-> total_gb,
                            used_gb          |-> used_gb,
                            available_gb     |-> available_gb,
                            usage_percentage |-> usage_percentage]),
                      explanation, 95, Some(advisories)),
        probes |-> <<>>]

(***************************************************************************)
(* The runners.  A call of a test function returns its TestResult, or      *)
(* raises: every test function catches Exception itself, so a call raises  *)
(* only when its own handler fails; the environment decides (env.raises).  *)
(***************************************************************************)
\* the keys of test_functions in run_android_diagnostics
android_test_functions ==
    {"battery.health", "storage.health", "sensors.test", "network.connectivity"}

\* the keys of test_functions in run_windows_diagnostics
windows_test_functions ==
    {"battery.health", "storage.health", "cpu.temperature", "memory.test"}

Returned(out) == [raised |-> FALSE, result |-> out.result, probes |-> out.probes]

Raised(env) == [raised |-> TRUE, message |-> env.message, probes |-> env.issued]

\* test_functions[test_id]() in run_android_diagnostics
android_call(test_id, env) ==
    IF env.raises THEN Raised(env)
    ELSE CASE test_id = "battery.health" -> Returned(test_android_battery(env))
           [] test_id = "storage.health" -> Returned(test_android_storage(env))
           [] test_id = "sensors.test" -> Returned(test_android_sensors(env))
           [] OTHER -> Returned(test_android_connectivity(env))

\* test_functions[test_id]() in run_windows_diagnostics
windows_call(test_id, env) ==
    IF env.raises THEN Raised(env)
    ELSE CASE test_id = "battery.health" -> Returned(test_battery_health(env))
           [] test_id = "storage.health" -> Returned(test_storage_health(env))
           [] test_id = "cpu.temperature" -> Returned(test_cpu_temperature(env))
           [] OTHER -> Returned(test_memory(env))

\* guarded changed: no try/except around the call
unguarded(call, test_id) == call

\* guarded changed: the handler passes explanation=str(e)
guarded_bare_message(call, test_id) ==
    IF call.raised
    THEN [raised |-> FALSE,
          result |-> TestResult(test_id, "unknown", "error", None, call.message,
                        DefaultConfidence, None),
          probes |-> call.probes]
    ELSE call

\* try: result = ...; except Exception as e: TestResult(... "Test execution failed")
guarded(call, test_id) ==
    IF call.raised
    THEN [raised |-> FALSE,
          result |-> TestResult(test_id, "unknown", "error", None,
                        "Test execution failed: " \o call.message,
                        DefaultConfidence, None),
          probes |-> call.probes]
    ELSE call

\* not_implemented changed: the explanation is no f-string and names no id
not_implemented_unnamed(test_id) ==
    [raised |-> FALSE,
     result |-> TestResult(test_id, "unknown", "error", None,
                   "Test not implemented: {test_id}", DefaultConfidence, None),
     probes |-> <<>>]

\* the else branch of the loop: the id is not a key of test_functions
not_implemented(test_id) ==
    [raised |-> FALSE,
     result |-> TestResult(test_id, "unknown", "error", None,
                   "Test not implemented: " \o test_id, DefaultConfidence, None),
     probes |-> <<>>]

\* one iteration of the loop of run_android_diagnostics
android_iteration(test_id, env) ==
    IF test_id \in android_test_functions
    THEN guarded(android_call(test_id, env), test_id)
    ELSE not_implemented(test_id)

\* one iteration of the loop of run_windows_diagnostics
windows_iteration(test_id, env) ==
    IF test_id \in windows_test_functions
    THEN guarded(windows_call(test_id, env), test_id)
    ELSE not_implemented(test_id)

\* unreachable_result changed: only the ids of the catalog get the advisories
unreachable_result_known_advised(test_id) ==
    TestResult(test_id, "unknown", "error", None,
        "No Android device connected. Enable USB debugging and connect device.",
        DefaultConfidence,
        IF test_id \in android_test_functions
        THEN Some(<<"Install ADB (Android SDK platform-tools)",
                    "Enable Developer Options on your Android device",
                    "Enable USB Debugging in Developer Options",
                    "Connect device with USB cable and accept debugging prompt">>)
        ELSE None)

\* the outcome of run_android_diagnostics for one id when the pre-flight
\* check_adb_connection() is False
unreachable_result(test_id) ==
    TestResult(test_id, "unknown", "error", None,
        "No Android device connected. Enable USB debugging and connect device.",
        DefaultConfidence,
        Some(<<"Install ADB (Android SDK platform-tools)",
               "Enable Developer Options on your Android device",
               "Enable USB Debugging in Developer Options",
               "Connect device with USB cable and accept debugging prompt">>))

\* unreachable_results changed: the loop runs over the ids of the catalog only
unreachable_results_known_only(requested) ==
    LET known == SelectSeq(requested, LAMBDA t : t \in android_test_functions)
    IN [i \in 1..Len(known) |->
           TestResult(known[i], "unknown", "error", None,
               "No Android device connected. Enable USB debugging and connect device.",
               DefaultConfidence, None)]

\* the loop over tests of the unreachable branch
unreachable_results(requested) ==
    [i \in 1..Len(requested) |-> unreachable_result(requested[i])]

(***************************************************************************)
(* The summary of run_diagnostics                                          *)
(***************************************************************************)
\* len([r for r in results if r.status == status])
count_status(rs, status) == Cardinality({i \in 1..Len(rs) : rs[i].status = status})

\* a ZeroDivisionError
DivisionFault == None

\* health_score changed: no `if results` guard
health_score_unguarded(passed, rs) ==
    IF rs # <<>> THEN Some(RoundDiv(passed * 1000, Len(rs))) ELSE DivisionFault

\* round((passed / len(results)) * 100, 1) if results else 0, in tenths;
\* Some(score), or DivisionFault where the division would raise
health_score(passed, rs) ==
    IF rs # <<>> THEN Some(RoundDiv(passed * 1000, Len(rs))) ELSE Some(0)

\* overall_status changed: errors are not looked at
overall_status_ignoring_errors(failed, errors) ==
    IF failed = 0 THEN "healthy" ELSE "issues_detected"

overall_status(failed, errors) ==
    IF failed = 0 /\ errors = 0 THEN "healthy" ELSE "issues_detected"

\* make_summary changed: warnings are counted under the status "warning"
make_summary_miscounted(rs) ==
    LET passed == count_status(rs, "pass")
        warnings == count_status(rs, "warning")
        failed == count_status(rs, "fail")
        errors == count_status(rs, "error")
        score == health_score(passed, rs)
    IN IF score = DivisionFault THEN None
       ELSE Some([total_tests    |-> Len(rs),
                  passed         |-> passed,
                  warnings       |-> warnings,
                  failed         |-> failed,
                  errors         |-> errors,
                  health_score   |-> score[1],
                  overall_status |-> overall_status(failed, errors)])

\* lines 191-204: Some(summary), or None when computing it raises
make_summary(rs) ==
    LET passed == count_status(rs, "pass")
        warnings == count_status(rs, "warn")
        failed == count_status(rs, "fail")
        errors == count_status(rs, "error")
        score == health_score(passed, rs)
    IN IF score = DivisionFault THEN None
       ELSE Some([total_tests    |-> Len(rs),
                  passed         |-> passed,
                  warnings       |-> warnings,
                  failed         |-> failed,
                  errors         |-> errors,
                  health_score   |-> score[1],
                  overall_status |-> overall_status(failed, errors)])

(***************************************************************************)
(* The environment: what the probes print and what psutil returns.  Each   *)
(* set below is the range of one external call; the numbers straddle the   *)
(* thresholds the test functions compare against.                          *)
(***************************************************************************)
\* sample texts of what the external tools print
Printed ==
    [devices_header |->
        <<"L", "i", "s", "t", " ", "o", "f", " ", "d", "e", "v", "i", "c", "e", "s", " ", "a", "t", "t", "a", "c", "h", "e", "d">>,
     serial |->
        <<"e", "m", "u", "l", "a", "t", "o", "r", "-", "5", "5", "5", "4">>,
     device |->
        <<"d", "e", "v", "i", "c", "e">>,
     offline |->
        <<"o", "f", "f", "l", "i", "n", "e">>,
     unauthorized |->
        <<"u", "n", "a", "u", "t", "h", "o", "r", "i", "z", "e", "d">>,
     adb_error |->
        <<"e", "r", "r", "o", "r", ":", " ", "c", "a", "n", "n", "o", "t", " ", "c", "o", "n", "n", "e", "c", "t", " ", "t", "o", " ", "d", "a", "e", "m", "o", "n">>,
     battery_header |->
        <<"C", "u", "r", "r", "e", "n", "t", " ", "B", "a", "t", "t", "e", "r", "y", " ", "S", "e", "r", "v", "i", "c", "e", " ", "s", "t", "a", "t", "e", ":">>,
     Good |->
        <<"G", "o", "o", "d">>,
     GOOD |->
        <<"G", "O", "O", "D">>,
     Overheat |->
        <<"O", "v", "e", "r", "h", "e", "a", "t">>,
     Charging |->
        <<"C", "h", "a", "r", "g", "i", "n", "g">>,
     Discharging |->
        <<"D", "i", "s", "c", "h", "a", "r", "g", "i", "n", "g">>,
     abc |->
        <<"a", "b", "c">>,
     n45_5 |->
        <<"4", "5", ".", "5">>,
     minus_5 |->
        <<"-", "5">>,
     n4_2V |->
        <<"4", ".", "2", "V">>,
     df_header |->
        <<"F", "i", "l", "e", "s", "y", "s", "t", "e", "m", " ", "1", "K", "-", "b", "l", "o", "c", "k", "s", " ", "U", "s", "e", "d", " ", "A", "v", "a", "i", "l", "a", "b", "l", "e", " ", "U", "s", "e", "%", " ", "M", "o", "u", "n", "t", "e", "d", " ", "o", "n">>,
     dev_block |->
        <<"/", "d", "e", "v", "/", "b", "l", "o", "c", "k", "/", "d", "m", "-", "0">>,
     dev_userdata |->
        <<"/", "d", "e", "v", "/", "b", "l", "o", "c", "k", "/", "b", "y", "-", "n", "a", "m", "e", "/", "u", "s", "e", "r", "d", "a", "t", "a">>,
     mnt_data |->
        <<"/", "d", "a", "t", "a">>,
     mnt_system |->
        <<"/", "s", "y", "s", "t", "e", "m">>,
     pct |->
        <<"5", "0", "%">>,
     n115G |->
        <<"1", "1", "5", "G">>,
     n20G |->
        <<"2", "0", "G">>,
     n95G |->
        <<"9", "5", "G">>,
     diskstats |->
        <<"D", "a", "t", "a", "-", "F", "r", "e", "e", ":", " ", "1", "2", "3", "4", "K", " ", "/", " ", "5", "6", "7", "8", "K", " ", "t", "o", "t", "a", "l", " ", "=", " ", "2", "1", "%", " ", "f", "r", "e", "e">>,
     sensor_header |->
        <<"S", "e", "n", "s", "o", "r", " ", "L", "i", "s", "t", ":">>,
     Accelerometer |->
        <<"B", "M", "I", "1", "6", "0", " ", "A", "c", "c", "e", "l", "e", "r", "o", "m", "e", "t", "e", "r">>,
     Gyroscope |->
        <<"B", "M", "I", "1", "6", "0", " ", "G", "y", "r", "o", "s", "c", "o", "p", "e">>,
     Magnetometer |->
        <<"A", "K", "0", "9", "9", "1", "5", " ", "M", "a", "g", "n", "e", "t", "o", "m", "e", "t", "e", "r">>,
     Proximity |->
        <<"T", "M", "D", "2", "7", "2", "5", " ", "P", "r", "o", "x", "i", "m", "i", "t", "y">>,
     Light |->
        <<"T", "M", "D", "2", "7", "2", "5", " ", "L", "i", "g", "h", "t">>,
     Pressure |->
        <<"B", "M", "P", "2", "8", "5", " ", "P", "r", "e", "s", "s", "u", "r", "e">>,
     Temperature |->
        <<"A", "m", "b", "i", "e", "n", "t", " ", "T", "e", "m", "p", "e", "r", "a", "t", "u", "r", "e">>,
     wifi_disabled |->
        <<"W", "i", "-", "F", "i", " ", "i", "s", " ", "d", "i", "s", "a", "b", "l", "e", "d">>,
     state_DISCONNECTED |->
        <<"s", "t", "a", "t", "e", ":", " ", "D", "I", "S", "C", "O", "N", "N", "E", "C", "T", "E", "D">>,
     DATA_DISCONNECTED |->
        <<"m", "D", "a", "t", "a", "C", "o", "n", "n", "e", "c", "t", "i", "o", "n", "S", "t", "a", "t", "e", "=", "D", "A", "T", "A", "_", "D", "I", "S", "C", "O", "N", "N", "E", "C", "T", "E", "D">>,
     mDataConnectionState |->
        <<"m", "D", "a", "t", "a", "C", "o", "n", "n", "e", "c", "t", "i", "o", "n", "S", "t", "a", "t", "e", "=">>,
     BatteryStatus |->
        <<"B", "a", "t", "t", "e", "r", "y", "S", "t", "a", "t", "u", "s">>,
     table_rule |->
        <<"-", "-", "-", "-", "-", "-", "-", "-", "-", "-", "-", "-", "-", "-", "-", "-", "-", "-", "-", "-", "-", "-", "-", "-", " ", "-", "-", "-", "-", "-", "-", "-", "-", "-", "-", "-", "-", "-">>,
     wmic_header |->
        <<"N", "o", "d", "e", ",", "M", "o", "d", "e", "l", ",", "S", "i", "z", "e", ",", "S", "t", "a", "t", "u", "s">>,
     wmic_row |->
        <<"P", "C", ",", "D", "i", "s", "k", ",", "1", "0", "0", "0", ",", "O", "K">>,
     report_saved |->
        <<"B", "a", "t", "t", "e", "r", "y", " ", "l", "i", "f", "e", " ", "r", "e", "p", "o", "r", "t", " ", "s", "a", "v", "e", "d", ".">>,
     access_denied |->
        <<"A", "c", "c", "e", "s", "s", " ", "i", "s", " ", "d", "e", "n", "i", "e", "d", ".">>]


\* a natural number as the decimal text a tool prints
RECURSIVE TextOf(_)
TextOf(n) ==
    IF n < 10 THEN <<DigitChars[n + 1]>>
    ELSE TextOf(n \div 10) \o <<DigitChars[(n % 10) + 1]>>

\* words separated by single spaces
RECURSIVE Spaced(_)
Spaced(ws) ==
    IF ws = <<>> THEN <<>>
    ELSE IF Len(ws) = 1 THEN ws[1]
    ELSE ws[1] \o <<" ">> \o Spaced(Tail(ws))

\* ---- `adb devices`
DevicesOut(state) ==
    JoinLines(<<Printed.devices_header, Printed.serial \o <<"\t">> \o state, <<>>, <<>>>>)

DeviceAttached == Exited(DevicesOut(Printed.device), <<>>, 0)

NoDeviceAttached == Exited(JoinLines(<<Printed.devices_header, <<>>, <<>>>>), <<>>, 0)

\* every behaviour of `adb devices` the model draws from
DevicesProbes ==
    {DeviceAttached, NoDeviceAttached,
     Exited(DevicesOut(Printed.offline), <<>>, 0),
     Exited(DevicesOut(Printed.unauthorized), <<>>, 0),
     Exited(Printed.serial \o <<"\t">> \o Printed.device, <<>>, 0),
     Exited(DevicesOut(Printed.device), Printed.adb_error, 1),
     TimedOut, NotFound, Failed(Printed.adb_error)}

\* ---- `adb shell dumpsys battery`
KVLine(key, value) ==
    IF value = None THEN <<>> ELSE <<<<" ", " ">> \o key \o <<":", " ">> \o value[1]>>

BatteryOut(level, health, status, temperature, voltage) ==
    JoinLines(<<Printed.battery_header>>
              \o KVLine(Literal.level, level) \o KVLine(Literal.health, health)
              \o KVLine(Literal.status, status)
              \o KVLine(Literal.temperature, temperature)
              \o KVLine(Literal.voltage, voltage))

LevelTexts == {None, Some(TextOf(10)), Some(TextOf(85)), Some(Printed.abc), Some(Printed.minus_5)}

HealthTexts == {None, Some(Printed.Good), Some(Printed.GOOD), Some(Printed.Overheat), Some(TextOf(2))}

StatusTexts == {Some(Printed.Charging), Some(Printed.Discharging), Some(TextOf(2))}

TemperatureTexts ==
    {None, Some(TextOf(300)), Some(TextOf(400)), Some(TextOf(401)), Some(TextOf(450)),
     Some(TextOf(500)), Some(TextOf(501)), Some(Printed.n45_5)}

VoltageTexts == {Some(TextOf(4200)), Some(Printed.n4_2V)}

BatteryProbes ==
    {Exited(BatteryOut(l, h, s, t, v), <<>>, 0) :
        l \in LevelTexts, h \in HealthTexts, s \in StatusTexts,
        t \in TemperatureTexts, v \in VoltageTexts}
    \cup {Exited(<<>>, Printed.adb_error, 1), TimedOut}

\* ---- `adb shell df /data` and `adb shell dumpsys diskstats`
DfOut(device, total, used, available, mount) ==
    JoinLines(<<Printed.df_header, Spaced(<<device, total, used, available, Printed.pct, mount>>)>>)

\* used KB out of a total of 1000 KB
UsedSamples == {500, 799, 800, 850, 851, 899, 900, 901, 950, 1000}

DfProbes ==
    {Exited(DfOut(Printed.dev_block, TextOf(1000), TextOf(u), TextOf(1000 - u), Printed.mnt_data),
            <<>>, 0) : u \in UsedSamples}
    \cup {Exited(DfOut(Printed.dev_userdata, TextOf(1000), TextOf(820), TextOf(180), Printed.mnt_system),
                 <<>>, 0),
          Exited(DfOut(Printed.dev_block, TextOf(0), TextOf(0), TextOf(0), Printed.mnt_data), <<>>, 0),
          Exited(DfOut(Printed.dev_block, Printed.n115G, Printed.n20G, Printed.n95G, Printed.mnt_data), <<>>, 0),
          Exited(DfOut(Printed.dev_block, TextOf(1000), TextOf(500), TextOf(500), Printed.mnt_system),
                 <<>>, 0),
          Exited(JoinLines(<<Printed.df_header, Printed.mnt_data>>), <<>>, 0),
          Exited(<<>>, Printed.adb_error, 1), TimedOut}

DiskstatsProbes ==
    {Exited(Printed.diskstats, <<>>, 0),
     Exited(DfOut(Printed.dev_block, TextOf(1000), TextOf(950), TextOf(50), Printed.mnt_data), <<>>, 0),
     Exited(<<>>, Printed.adb_error, 1), TimedOut}

\* ---- `adb shell dumpsys sensorservice`
SensorLines ==
    <<Printed.Accelerometer, Printed.Gyroscope, Printed.Magnetometer, Printed.Proximity, Printed.Light,
      Printed.Pressure, Printed.Temperature>>

SensorProbes ==
    {Exited(JoinLines(<<Printed.sensor_header>> \o SubSeq(SensorLines, 1, n)), <<>>, 0) :
        n \in 0..Len(SensorLines)}
    \cup {Exited(JoinLines(<<Printed.sensor_header>> \o SubSeq(SensorLines, 5, 7)), <<>>, 0),
          Exited(<<>>, Printed.adb_error, 1), TimedOut}

\* ---- `adb shell dumpsys wifi` and `adb shell dumpsys telephony.registry`
WifiProbes ==
    {Exited(JoinLines(<<Literal.wifi_is_enabled, Literal.state_CONNECTED>>), <<>>, 0),
     Exited(JoinLines(<<Literal.mWifiEnabled_true, Literal.CONNECTED_CONNECTED>>), <<>>, 0),
     Exited(JoinLines(<<Literal.wifi_is_enabled, Printed.state_DISCONNECTED>>), <<>>, 0),
     Exited(JoinLines(<<Printed.wifi_disabled, Printed.state_DISCONNECTED>>), <<>>, 0),
     Exited(<<>>, Printed.adb_error, 1), TimedOut}

TelephonyProbes ==
    {Exited(Printed.mDataConnectionState \o Literal.DATA_CONNECTED, <<>>, 0),
     Exited(Printed.DATA_DISCONNECTED, <<>>, 0),
     Exited(Printed.mDataConnectionState \o Literal.DATA_CONNECTED, Printed.adb_error, 1),
     TimedOut}

\* ---- powercfg, powershell, wmic
PowercfgProbes ==
    {Exited(Printed.report_saved, <<>>, 0), Exited(<<>>, Printed.access_denied, 1),
     TimedOut, NotFound}

PowershellProbes ==
    {Exited(JoinLines(<<Literal.EstimatedChargeRemaining \o <<" ", ":", " ">> \o TextOf(95),
                        Printed.BatteryStatus \o <<" ", ":", " ">> \o TextOf(2)>>), <<>>, 0),
     Exited(JoinLines(<<Literal.EstimatedChargeRemaining \o <<" ">> \o Printed.BatteryStatus,
                        Printed.table_rule,
                        Spaced(<<TextOf(40), TextOf(1)>>)>>), <<>>, 0),
     Exited(<<>>, <<>>, 0),
     Exited(<<>>, Printed.access_denied, 1),
     TimedOut}

WmicProbes ==
    {Exited(JoinLines(<<Printed.wmic_header, Printed.wmic_row>>), <<>>, 0),
     Exited(<<>>, <<>>, 0), Exited(<<>>, Printed.access_denied, 1), NotFound}

\* ---- psutil
PsutilRaises(message) == [kind |-> "raise", message |-> message]

DiskUsages ==
    {[kind |-> "ok", total |-> 1000, used |-> u, free |-> 1000 - u] : u \in UsedSamples}
    \cup {[kind |-> "ok", total |-> 0, used |-> 0, free |-> 0],
          PsutilRaises("[Errno 2] No such file or directory: 'C:\\'")}

\* usage in tenths of a percent
PercentSamples == {0, 500, 799, 800, 850, 851, 899, 900, 901, 949, 950, 951, 1000}

CpuReadings ==
    {[kind |-> "ok", percent |-> p, count |-> 4, freq |-> f] :
        p \in PercentSamples, f \in {None, Some(240055)}}
    \cup {PsutilRaises("psutil.cpu_percent failed")}

MemoryReadings ==
    {[kind |-> "ok", total |-> 8000, available |-> 8000 - 8 * p, used |-> 8 * p,
      percent |-> p] : p \in PercentSamples}
    \cup {PsutilRaises("psutil.virtual_memory failed")}

(***************************************************************************)
(* What the environment hands one call of a test function                  *)
(***************************************************************************)
\* the call raises out of the test function
\* (str(e) of an exception without arguments is the empty string)
RaisingEnvs ==
    {[raises |-> TRUE, message |-> m, issued |-> <<>>] : m \in {"handler failed", ""}}

\* an id that is no key of test_functions calls nothing
NoCallEnvs == {[raises |-> FALSE]}

\* `adb devices` as a test function sees it: the device may have gone since
\* the pre-flight check
DevicesGone(envs) == {[e EXCEPT !.devices = NoDeviceAttached] : e \in envs}

AndroidBatteryEnvs ==
    {[raises |-> FALSE, devices |-> DeviceAttached, battery |-> b] : b \in BatteryProbes}

AndroidStorageEnvs ==
    {[raises |-> FALSE, devices |-> DeviceAttached, df |-> d, diskstats |-> TimedOut] :
        d \in DfProbes}
    \cup {[raises |-> FALSE, devices |-> DeviceAttached, df |-> d, diskstats |-> k] :
             d \in {Exited(<<>>, Printed.adb_error, 1), TimedOut}, k \in DiskstatsProbes}

AndroidSensorEnvs ==
    {[raises |-> FALSE, devices |-> DeviceAttached, sensorservice |-> p] :
        p \in SensorProbes}

AndroidConnectivityEnvs ==
    {[raises |-> FALSE, devices |-> DeviceAttached, wifi |-> w, telephony |-> t] :
        w \in WifiProbes, t \in TelephonyProbes}

WindowsBatteryEnvs ==
    {[raises |-> FALSE, powercfg |-> c, powershell |-> p] :
        c \in PowercfgProbes, p \in PowershellProbes}

WindowsStorageEnvs ==
    {[raises |-> FALSE, wmic |-> w, disk_usage |-> d] : w \in WmicProbes, d \in DiskUsages}

WindowsCpuEnvs == {[raises |-> FALSE, cpu |-> c] : c \in CpuReadings}

WindowsMemoryEnvs == {[raises |-> FALSE, memory |-> m] : m \in MemoryReadings}

\* every environment of one call, by platform and test id
AndroidEnvs(test_id) ==
    CASE test_id = "battery.health" ->
            AndroidBatteryEnvs \cup DevicesGone(AndroidBatteryEnvs) \cup RaisingEnvs
      [] test_id = "storage.health" ->
            AndroidStorageEnvs \cup DevicesGone(AndroidStorageEnvs) \cup RaisingEnvs
      [] test_id = "sensors.test" ->
            AndroidSensorEnvs \cup DevicesGone(AndroidSensorEnvs) \cup RaisingEnvs
      [] test_id = "network.connectivity" ->
            AndroidConnectivityEnvs \cup DevicesGone(AndroidConnectivityEnvs)
            \cup RaisingEnvs
      [] OTHER -> NoCallEnvs

WindowsEnvs(test_id) ==
    CASE test_id = "battery.health" -> WindowsBatteryEnvs \cup RaisingEnvs
      [] test_id = "storage.health" -> WindowsStorageEnvs \cup RaisingEnvs
      [] test_id = "cpu.temperature" -> WindowsCpuEnvs \cup RaisingEnvs
      [] test_id = "memory.test" -> WindowsMemoryEnvs \cup RaisingEnvs
      [] OTHER -> NoCallEnvs

\* the environments the batch specification draws from: for each test
\* function a few that give its different verdicts
AndroidBatchEnvs(test_id) ==
    CASE test_id = "battery.health" ->
            {[raises |-> FALSE, devices |-> DeviceAttached,
              battery |-> Exited(BatteryOut(Some(TextOf(85)), Some(Printed.Good),
                                            Some(Printed.Charging), Some(TextOf(t)),
                                            Some(TextOf(4200))), <<>>, 0)] :
                t \in {300, 450}}
            \cup RaisingEnvs
      [] test_id = "storage.health" ->
            {[raises |-> FALSE, devices |-> DeviceAttached, diskstats |-> TimedOut,
              df |-> Exited(DfOut(Printed.dev_block, TextOf(1000), TextOf(u),
                                  TextOf(1000 - u), Printed.mnt_data), <<>>, 0)] :
                u \in {500, 950}}
            \cup {[raises |-> FALSE, devices |-> DeviceAttached, df |-> TimedOut,
                   diskstats |-> TimedOut]}
      [] test_id = "sensors.test" ->
            {[raises |-> FALSE, devices |-> d,
              sensorservice |-> Exited(JoinLines(SubSeq(SensorLines, 1, 3)), <<>>, 0)] :
                d \in {DeviceAttached, NoDeviceAttached}}
      [] test_id = "network.connectivity" ->
            {[raises |-> FALSE, devices |-> DeviceAttached, telephony |-> TimedOut,
              wifi |-> Exited(JoinLines(<<w, s>>), <<>>, 0)] :
                <<w, s>> \in {<<Literal.wifi_is_enabled, Literal.state_CONNECTED>>,
                              <<Printed.wifi_disabled, Printed.state_DISCONNECTED>>}}
      [] OTHER -> NoCallEnvs

WindowsBatchEnvs(test_id) ==
    CASE test_id = "battery.health" ->
            {[raises |-> FALSE, powercfg |-> c,
              powershell |-> Exited(Literal.EstimatedChargeRemaining \o <<" ", ":", " ">>
                                    \o TextOf(95), <<>>, 0)] :
                c \in {Exited(Printed.report_saved, <<>>, 0), NotFound}}
      [] test_id = "storage.health" ->
            {[raises |-> FALSE, wmic |-> Exited(Printed.wmic_row, <<>>, 0),
              disk_usage |-> [kind |-> "ok", total |-> 1000, used |-> u,
                              free |-> 1000 - u]] : u \in {500, 850}}
      [] test_id = "cpu.temperature" ->
            {[raises |-> FALSE,
              cpu |-> [kind |-> "ok", percent |-> p, count |-> 4, freq |-> None]] :
                p \in {500, 950}}
            \cup RaisingEnvs
      [] test_id = "memory.test" ->
            {[raises |-> FALSE,
              memory |-> [kind |-> "ok", total |-> 8000, available |-> 1200,
                          used |-> 6800, percent |-> 850]],
             [raises |-> FALSE, memory |-> PsutilRaises("psutil.virtual_memory failed")]}
      [] OTHER -> NoCallEnvs

(***************************************************************************)
(* The request                                                             *)
(***************************************************************************)
\* the length of the longest requested list
MaxTests == 3

\* the ids a request may name: the keys of both catalogs and an id of neither
RequestIds == android_test_functions \cup windows_test_functions \cup {"foo.bar"}

\* platform.system() of a registered device
DeviceOSes == {"Windows", "Linux", "Darwin", "FreeBSD"}

RequestLists == UNION {[1..n -> RequestIds] : n \in 0..MaxTests}

SingleRequests == {<<test_id>> : test_id \in RequestIds}

\* what one iteration of the loop can append, by test id, with the
\* environment that gave it
AndroidBatchSteps ==
    [test_id \in RequestIds |->
        {android_iteration(test_id, env) @@ [env |-> env] : env \in AndroidBatchEnvs(test_id)}]

WindowsBatchSteps ==
    [test_id \in RequestIds |->
        {windows_iteration(test_id, env) @@ [env |-> env] : env \in WindowsBatchEnvs(test_id)}]

AndroidAllSteps ==
    [test_id \in RequestIds |->
        {android_iteration(test_id, env) @@ [env |-> env] : env \in AndroidEnvs(test_id)}]

WindowsAllSteps ==
    [test_id \in RequestIds |->
        {windows_iteration(test_id, env) @@ [env |-> env] : env \in WindowsEnvs(test_id)}]

(***************************************************************************)
(* The state machine of one request                                        *)
(***************************************************************************)
InitWith(requests) ==
    /\ os \in DeviceOSes
    /\ tests \in requests
    /\ pc = "Dispatch"
    /\ phase = "Init"
    /\ idx = 1
    /\ results = <<>>
    /\ probeLog = <<>>
    /\ handed = <<>>
    /\ summary = None

\* Dispatch with a final `else` that calls the Windows runner
Dispatch_with_default_runner ==
    /\ pc = "Dispatch"
    /\ pc' = IF os = "Darwin" THEN "Http501" ELSE "Running"
    /\ phase' = CASE os = "Linux" -> "ConnectivityCheck"
                  [] os = "Darwin" -> "Init"
                  [] OTHER -> "Executing"
    /\ UNCHANGED <<os, tests, idx, results, probeLog, handed, summary>>

\* run_diagnostics, lines 174-188: the runner is chosen by device.os
Dispatch ==
    /\ pc = "Dispatch"
    /\ pc' = IF os = "Darwin" THEN "Http501" ELSE "Running"
    /\ phase' = CASE os = "Windows" -> "Executing"
                  [] os = "Linux" -> "ConnectivityCheck"
                  [] os = "Darwin" -> "Init"
                  [] OTHER -> "NoRunner"
    /\ UNCHANGED <<os, tests, idx, results, probeLog, handed, summary>>

\* run_android_diagnostics, lines 389-402
PreFlight ==
    /\ pc = "Running"
    /\ phase = "ConnectivityCheck"
    /\ \E raw \in DevicesProbes :
          IF check_adb_connection(raw)
          THEN phase' = "Executing" /\ results' = results
          ELSE phase' = "Unreachable" /\ results' = unreachable_results(tests)
    /\ probeLog' = Append(probeLog, "devices")
    /\ UNCHANGED <<os, tests, pc, idx, handed, summary>>

\* one iteration of the loop over tests; a raise out of the runner reaches
\* the `except Exception` of run_diagnostics (line 220)
Iterate(steps) ==
    /\ pc = "Running"
    /\ phase = "Executing"
    /\ idx <= Len(tests)
    /\ \E step \in steps[tests[idx]] :
          /\ probeLog' = probeLog \o step.probes
          /\ handed' = Append(handed, step.env)
          /\ IF step.raised
             THEN pc' = "Http500" /\ phase' = "Raised" /\ UNCHANGED <<idx, results>>
             ELSE /\ results' = Append(results, step.result)
                  /\ idx' = idx + 1
                  /\ UNCHANGED <<pc, phase>>
    /\ UNCHANGED <<os, tests, summary>>

RunAndroidTest == os = "Linux" /\ Iterate(AndroidBatchSteps)

RunWindowsTest == os = "Windows" /\ Iterate(WindowsBatchSteps)

RunAndroidTestAny == os = "Linux" /\ Iterate(AndroidAllSteps)

RunWindowsTestAny == os = "Windows" /\ Iterate(WindowsAllSteps)

\* `return results` after the loop
ReturnResults ==
    /\ pc = "Running"
    /\ phase = "Executing"
    /\ idx > Len(tests)
    /\ phase' = "Completed"
    /\ UNCHANGED <<os, tests, pc, idx, results, probeLog, handed, summary>>

\* run_diagnostics, lines 190-204; a fault while computing the summary
\* reaches the `except Exception` of line 220
Summarise ==
    /\ pc = "Running"
    /\ phase \in {"Completed", "Unreachable", "NoRunner"}
    /\ summary' = make_summary(results)
    /\ pc' = IF make_summary(results) = None THEN "Http500" ELSE "Summarised"
    /\ UNCHANGED <<os, tests, phase, idx, results, probeLog, handed>>

\* run_diagnostics, lines 206-215: DiagnosticResponse(...) validates results
\* as List[TestResult] of the backend's model.  The runners' outcomes are
\* objects of the agents' own TestResult class, and whether pydantic takes
\* them is the library's matter: a ValidationError reaches the handler of
\* line 220.  An empty list always validates.
Respond ==
    /\ pc = "Summarised"
    /\ \E validated \in (IF results = <<>> THEN {TRUE} ELSE BOOLEAN) :
          pc' = IF validated THEN "Http200" ELSE "Http500"
    /\ UNCHANGED <<os, tests, phase, idx, results, probeLog, handed, summary>>

\* batches of up to MaxTests ids
Init == InitWith(RequestLists)

Next ==
    \/ Dispatch
    \/ PreFlight
    \/ RunAndroidTest
    \/ RunWindowsTest
    \/ ReturnResults
    \/ Summarise
    \/ Respond

Spec == Init /\ [][Next]_vars

\* requests of one id, each test function over every environment
InitOneTest == InitWith(SingleRequests)

NextOneTest ==
    \/ Dispatch
    \/ PreFlight
    \/ RunAndroidTestAny
    \/ RunWindowsTestAny
    \/ ReturnResults
    \/ Summarise
    \/ Respond

SpecOneTest == InitOneTest /\ [][NextOneTest]_vars

(***************************************************************************)
(* Properties                                                              *)
(***************************************************************************)
\* the keys of the catalog of the runner of a device
CatalogOf(device_os) ==
    IF device_os = "Linux" THEN android_test_functions ELSE windows_test_functions

\* the runner has returned its list
RunnerReturned == phase \in {"Completed", "Unreachable"}

Statuses == {"pass", "warn", "fail", "error"}

\* what the test function of an id can make the loop append
AndroidOutcomes ==
    [test_id \in RequestIds |->
        {step.result : step \in {st \in AndroidAllSteps[test_id] : ~st.raised}}]

WindowsOutcomes ==
    [test_id \in RequestIds |->
        {step.result : step \in {st \in WindowsAllSteps[test_id] : ~st.raised}}]

OutcomesOf(device_os, test_id) ==
    IF device_os = "Linux" THEN AndroidOutcomes[test_id] ELSE WindowsOutcomes[test_id]

\* the outcome the handler of the loop builds from a raised exception
IsCaughtFault(r) ==
    /\ r.category = "unknown"
    /\ r.explanation \in {"Test execution failed: " \o e.message : e \in RaisingEnvs}

\* C1: the list a runner returns has one outcome per requested id, and the
\* outcome at position i carries the i-th requested id; while the loop runs,
\* the list built so far is such a prefix.
C1_OneOutcomePerRequestedId ==
    /\ RunnerReturned => Len(results) = Len(tests)
    /\ phase \in {"Executing", "Completed", "Unreachable"} =>
          /\ Len(results) <= Len(tests)
          /\ \A i \in 1..Len(results) : results[i].test_id = tests[i]
    /\ phase = "Executing" => Len(results) = idx - 1

\* a completed Android run of three ids: a duplicate and an unknown id
C1_Witness ==
    /\ os = "Linux"
    /\ phase = "Completed"
    /\ Len(tests) = 3
    /\ tests[1] \in android_test_functions
    /\ tests[2] \notin android_test_functions
    /\ tests[3] = tests[1]
    /\ Len(results) = 3

\* C2: when the pre-flight check finds no device, every requested id, known
\* or not, gets an error outcome, all with the same non-empty advisories, and
\* nothing but the pre-flight `adb devices` probe was ever issued: the loop
\* ran no iteration.
C2_UnreachableShortCircuits ==
    phase = "Unreachable" =>
        /\ Len(results) = Len(tests)
        /\ \A i \in 1..Len(results) :
              /\ results[i].status = "error"
              /\ results[i].advisories # <<>>
              /\ results[i].advisories = results[1].advisories
        /\ idx = 1
        /\ probeLog = <<"devices">>

\* an unreachable run that asked for a known and an unknown id and has ended
C2_Witness ==
    /\ phase = "Unreachable"
    /\ pc = "Summarised"
    /\ \E i, j \in 1..Len(tests) :
          tests[i] \in android_test_functions /\ tests[j] \notin android_test_functions

\* the outcome of an id that is no key of the catalog
IsNotImplemented(r, test_id) ==
    /\ r.test_id = test_id
    /\ r.status = "error"
    /\ r.category = "unknown"
    /\ r.explanation = "Test not implemented: " \o test_id

\* C3 as stated: in every list a runner returns, an id that is no key of the
\* catalog has the not-implemented outcome, and every id that is a key has an
\* outcome of its test function.
C3_AsStated ==
    RunnerReturned =>
        \A i \in 1..Len(tests) :
            /\ i <= Len(results)
            /\ tests[i] \notin CatalogOf(os) => IsNotImplemented(results[i], tests[i])
            /\ tests[i] \in CatalogOf(os) => results[i] \in OutcomesOf(os, tests[i])

\* C3, amended: whenever the loop over the requested ids runs (the Windows
\* runner always, the Android runner after a pre-flight check that found a
\* device), an id that is no key of the catalog appends the not-implemented
\* outcome and every id that is a key appends an outcome of its test
\* function, whatever stands before or after it; the completed list has one
\* outcome per id.  After a pre-flight check that found no device, an unknown
\* id gets the same transport error as every other id.
C3_UnknownIdWhenExecuting ==
    /\ phase \in {"Executing", "Completed"} =>
          \A i \in 1..Len(results) :
              /\ tests[i] \notin CatalogOf(os) =>
                    IsNotImplemented(results[i], tests[i])
              /\ tests[i] \in CatalogOf(os) => results[i] \in OutcomesOf(os, tests[i])
    /\ phase = "Completed" => Len(results) = Len(tests)
    /\ phase = "Unreachable" =>
          \A i \in 1..Len(results) :
              /\ results[i].status = "error"
              /\ results[i].category = "unknown"
              /\ results[i].explanation =
                    "No Android device connected. Enable USB debugging and connect device."

\* a completed run with an unknown id between two ids whose tests passed
C3_Witness ==
    /\ phase = "Completed"
    /\ Len(results) = 3
    /\ tests[2] = "foo.bar"
    /\ IsNotImplemented(results[2], "foo.bar")
    /\ tests[1] \in CatalogOf(os) /\ results[1].status = "pass"
    /\ tests[3] \in CatalogOf(os) /\ results[3].status = "pass"

\* C4: an iteration of the loop never raises out of the runner, also when the
\* call of the test function raises: it appends exactly one outcome, for the
\* id of the iteration, leaves the outcomes appended before as they are, and
\* the outcome is one the id can give whatever happened at other positions;
\* the outcome built from a raised exception has status error.
C4_FaultIsolated ==
    [][(pc = "Running" /\ phase = "Executing" /\ idx <= Len(tests)) =>
          /\ pc' = "Running"
          /\ phase' = "Executing"
          /\ Len(results') = Len(results) + 1
          /\ SubSeq(results', 1, Len(results)) = results
          /\ results'[idx].test_id = tests[idx]
          /\ tests[idx] \in CatalogOf(os) => results'[idx] \in OutcomesOf(os, tests[idx])
          /\ IsCaughtFault(results'[idx]) => results'[idx].status = "error"]_vars

\* a completed run whose second call raised, between two tests that passed
C4_Witness ==
    /\ phase = "Completed"
    /\ Len(results) = 3
    /\ IsCaughtFault(results[2])
    /\ results[2].status = "error"
    /\ results[1].status = "pass"
    /\ results[3].status = "pass"

\* C5: the counts of a summary are non-negative and add up to total_tests,
\* which is the number of outcomes.
C5_SummaryCountsAddUp ==
    summary # None =>
        LET s == summary[1]
        IN /\ s.total_tests = s.passed + s.warnings + s.failed + s.errors
           /\ s.total_tests = Len(results)
           /\ s.total_tests >= 0 /\ s.passed >= 0 /\ s.warnings >= 0
           /\ s.failed >= 0 /\ s.errors >= 0

\* a summary of a pass, a warn and an error
C5_Witness ==
    /\ summary # None
    /\ summary[1].passed = 1
    /\ summary[1].warnings = 1
    /\ summary[1].errors = 1
    /\ summary[1].total_tests = 3

\* C6: computing the summary never faults (a request that ends in a 500
\* has its summary computed: the fault came after it), and health_score (in
\* tenths) is the tenth nearest to passed / total_tests * 100, within 0..100,
\* and 0 for an empty list.
C6_HealthScore ==
    /\ pc \in {"Summarised", "Http200", "Http500"} => summary # None
    /\ summary # None =>
          LET score == summary[1].health_score
              total == Len(results)
              passed == Cardinality({i \in 1..Len(results) : results[i].status = "pass"})
          IN /\ score >= 0 /\ score <= 1000
             /\ total = 0 => score = 0
             /\ total > 0 =>
                   /\ 2 * (score * total - 1000 * passed) <= total
                   /\ 2 * (1000 * passed - score * total) <= total

\* two of three passed: 66.7
C6_Witness ==
    /\ summary # None
    /\ summary[1].total_tests = 3
    /\ summary[1].passed = 2
    /\ summary[1].health_score = 667

\* C7: overall_status is healthy exactly when no outcome failed and none is
\* an error, and issues_detected otherwise; an empty list is healthy.
C7_OverallStatus ==
    summary # None =>
        LET bad == {i \in 1..Len(results) : results[i].status \in {"fail", "error"}}
        IN /\ summary[1].overall_status \in {"healthy", "issues_detected"}
           /\ summary[1].overall_status = "healthy" <=> bad = {}
           /\ summary[1].overall_status = "healthy" <=>
                 (summary[1].failed = 0 /\ summary[1].errors = 0)
           /\ results = <<>> => summary[1].overall_status = "healthy"

\* the summary of the empty list a runner returned for an empty request
C7_Witness ==
    /\ summary # None
    /\ phase = "Completed"
    /\ tests = <<>>
    /\ summary[1].total_tests = 0
    /\ summary[1].overall_status = "healthy"

\* C8: in every outcome of a test function or of a runner, confidence is 0
\* exactly when status is error: a pass, warn or fail outcome has a
\* confidence above 0 and an error outcome has confidence 0.
C8_ConfidenceZeroIffError ==
    \A i \in 1..Len(results) :
        /\ results[i].status \in Statuses
        /\ results[i].confidence >= 0
        /\ results[i].confidence = 0 <=> results[i].status = "error"

\* a test function answered with an error of its own making, not the loop's
C8_Witness ==
    /\ phase = "Completed"
    /\ Len(results) = 1
    /\ tests[1] \in CatalogOf(os)
    /\ results[1].status = "error"
    /\ results[1].category # "unknown"
    /\ results[1].confidence = 0

\* C9: every error outcome, whichever path made it, has a non-empty
\* explanation and an empty metrics map.
C9_ErrorOutcomeShape ==
    \A i \in 1..Len(results) :
        results[i].status = "error" =>
            /\ results[i].explanation # ""
            /\ DOMAIN results[i].metrics = {}

\* the loop caught a fault whose message is the empty string
C9_Witness ==
    /\ phase = "Completed"
    /\ Len(results) = 1
    /\ tests[1] \in CatalogOf(os)
    /\ results[1].status = "error"
    /\ results[1].explanation = "Test execution failed: "

\* the usage figure, in tenths of a percent, an outcome was classified by
UsageOf(r) ==
    IF r.test_id = "cpu.temperature" THEN r.metrics.cpu_usage_percentage
    ELSE r.metrics.usage_percentage

\* the bound above which the table of an id says fail, in tenths of a percent
UpperBoundOf(test_id) == IF test_id = "cpu.temperature" THEN 950 ELSE 900

\* an outcome a usage classifier gave a verdict to
IsUsageOutcome(r) ==
    /\ r.status # "error"
    /\ r.test_id \in {"storage.health", "cpu.temperature", "memory.test"}

\* C10 as stated: a usage classifier answers pass iff u < 80, warn iff
\* 80 <= u <= upper bound and fail iff u > upper bound, the upper bound being
\* 95 for the Windows cpu test and 90 for the storage and memory tests.
C10_AsStated ==
    \A i \in 1..Len(results) :
        IsUsageOutcome(results[i]) =>
            LET u == UsageOf(results[i])
                upper == UpperBoundOf(results[i].test_id)
            IN /\ results[i].status = "pass" <=> u < 800
               /\ results[i].status = "warn" <=> (800 <= u /\ u <= upper)
               /\ results[i].status = "fail" <=> u > upper

\* a usage of exactly the upper bound was classified, and the verdict is fail
C10_Witness ==
    /\ phase = "Completed"
    /\ Len(results) = 1
    /\ IsUsageOutcome(results[1])
    /\ UsageOf(results[1]) = UpperBoundOf(results[1].test_id)
    /\ results[1].status = "fail"

\* an outcome the Android battery classifier gave a verdict to
IsBatteryVerdict(r) ==
    /\ os = "Linux"
    /\ r.test_id = "battery.health"
    /\ r.category = "power"
    /\ r.status # "error"

\* the advisory of the rule `temp_celsius > 40`
HighTemperatureAdvisory(t) == "Battery temperature is high (" \o Fmt1(t) \o " deg C)"

\* a sequence has the element
Has(seq, x) == \E k \in 1..Len(seq) : seq[k] = x

\* C11: the Android battery classifier answers fail iff the temperature is
\* above 50 degrees; otherwise warn iff the health flag is not "good"
\* (whatever its case) or the temperature is above 40; otherwise pass.  When
\* the temperature is above 40 the advisories include the high-temperature
\* warning.
C11_BatteryVerdict ==
    \A i \in 1..Len(results) :
        IsBatteryVerdict(results[i]) =>
            LET r == results[i]
                t == r.metrics.temperature_celsius
                notGood == Lower(r.metrics.health) # Literal.good
            IN /\ r.status = "fail" <=> t > 500
               /\ r.status = "warn" <=> (t <= 500 /\ (notGood \/ t > 400))
               /\ r.status = "pass" <=> (t <= 400 /\ ~notGood)
               /\ t > 400 => Has(r.advisories, HighTemperatureAdvisory(t))

\* health flag Good and 45.0 degrees: warn, with the high-temperature advisory
C11_Witness ==
    /\ phase = "Completed"
    /\ Len(results) = 1
    /\ IsBatteryVerdict(results[1])
    /\ results[1].metrics.health = Printed.Good
    /\ results[1].metrics.temperature_celsius = 450
    /\ results[1].status = "warn"
    /\ results[1].advisories = <<HighTemperatureAdvisory(450)>>

\* the running verdicts of the classification that gave a battery outcome:
\* the classifier's inputs are the outcome's metrics
TraceOf(r) ==
    BatteryRuleTrace(r.metrics.level_percentage, r.metrics.health, r.metrics.status,
                     r.metrics.temperature_celsius)

Severity(status) == CASE status = "pass" -> 0 [] status = "warn" -> 1 [] OTHER -> 2

\* the most severe level among the rules the inputs of an outcome trigger
MostSevereTriggered(r) ==
    IF r.metrics.temperature_celsius > 500 THEN "fail"
    ELSE IF Lower(r.metrics.health) # Literal.good
            \/ r.metrics.temperature_celsius > 400 THEN "warn"
    ELSE "pass"

\* C12: within one pass of the Android battery classifier the running status
\* never moves to a less severe value from one rule to the next, and the
\* returned status is the last running status, which is the most severe
\* level of the triggered rules.
C12_EscalationOnly ==
    \A i \in 1..Len(results) :
        IsBatteryVerdict(results[i]) =>
            LET tr == TraceOf(results[i])
            IN /\ tr[1].health_status = "pass"
               /\ \A k \in 1..(Len(tr) - 1) :
                     Severity(tr[k + 1].health_status) >= Severity(tr[k].health_status)
               /\ results[i].status = tr[Len(tr)].health_status
               /\ results[i].status = MostSevereTriggered(results[i])

\* a pass in which the health rule, both temperature rules and the low-level
\* rule all triggered: warn, warn, fail, and fail is returned
C12_Witness ==
    /\ phase = "Completed"
    /\ Len(results) = 1
    /\ IsBatteryVerdict(results[1])
    /\ Lower(results[1].metrics.health) # Literal.good
    /\ results[1].metrics.temperature_celsius > 500
    /\ results[1].metrics.level_percentage < 15
    /\ Len(results[1].advisories) = 4
    /\ results[1].status = "fail"

\* the i-th iteration called the Android test function of the id and the call
\* returned
AndroidCallReturned(i, test_id) ==
    /\ os = "Linux"
    /\ i <= Len(handed) /\ i <= Len(results)
    /\ tests[i] = test_id
    /\ ~handed[i].raises

\* the output the Android storage test extracts from: of `df /data`, or of
\* `dumpsys diskstats` when df failed
StorageProbe(env) ==
    LET first == run_adb_command(env.df)
    IN IF first.code # 0 THEN run_adb_command(env.diskstats) ELSE first

\* the storage probe succeeded and the total capacity of the matched line is
\* zero or no numeric text
TotalUnusable(env) ==
    /\ check_adb_connection(env.devices)
    /\ StorageProbe(env).code = 0
    /\ df_matched_parts(StorageProbe(env).stdout) # None
    /\ LET total == df_matched_parts(StorageProbe(env).stdout)[1][2]
       IN ~IsDigit(total) \/ DigitsValue(total) = 0

\* C13 as stated: when the storage probe succeeds but the total capacity of
\* the matched line is zero or not numeric, the outcome of the Android
\* storage test is an error.
C13_AsStated ==
    \A i \in 1..Len(results) :
        (AndroidCallReturned(i, "storage.health") /\ TotalUnusable(handed[i])) =>
            results[i].status = "error"

\* a total of zero or of no numeric text was classified: usage 0, pass
C13_Witness ==
    /\ phase = "Completed"
    /\ Len(results) = 1
    /\ AndroidCallReturned(1, "storage.health")
    /\ TotalUnusable(handed[1])
    /\ results[1].status = "pass"
    /\ results[1].metrics.usage_percentage = 0
    /\ results[1].confidence = 85

\* `dumpsys battery` succeeded on a reachable device
BatteryProbed(env) ==
    /\ check_adb_connection(env.devices)
    /\ run_adb_command(env.battery).code = 0

\* the value text of a key of the battery output is there and is no number
\* the coercion of the field accepts
NoLevelNumber(env) ==
    LET v == battery_info_get(run_adb_command(env.battery).stdout, Literal.level)
    IN v # None /\ ~IntParses(v[1])

NoTemperatureNumber(env) ==
    LET v == battery_info_get(run_adb_command(env.battery).stdout, Literal.temperature)
    IN v # None /\ ~IsDigit(v[1])

NoVoltageNumber(env) ==
    LET v == battery_info_get(run_adb_command(env.battery).stdout, Literal.voltage)
    IN v # None /\ ~IsDigit(v[1])

\* C14 as stated: whenever the battery probe succeeded, the outcome of the
\* Android battery test has a status of pass, warn or fail, and a numeric
\* field (level, temperature, voltage) whose text is no number is reported
\* as the default 0.
C14_AsStated ==
    \A i \in 1..Len(results) :
        (AndroidCallReturned(i, "battery.health") /\ BatteryProbed(handed[i])) =>
            /\ results[i].status \in {"pass", "warn", "fail"}
            /\ NoLevelNumber(handed[i]) => results[i].metrics.level_percentage = 0
            /\ NoTemperatureNumber(handed[i]) =>
                  results[i].metrics.temperature_celsius = 0
            /\ NoVoltageNumber(handed[i]) => results[i].metrics.voltage_mv = 0

\* a level that is no number made the outcome an error, the other fields
\* being numbers
C14_Witness ==
    /\ phase = "Completed"
    /\ Len(results) = 1
    /\ AndroidCallReturned(1, "battery.health")
    /\ BatteryProbed(handed[1])
    /\ NoLevelNumber(handed[1])
    /\ ~NoTemperatureNumber(handed[1])
    /\ ~NoVoltageNumber(handed[1])
    /\ results[1].status = "error"
    /\ results[1].category = "power"

\* the i-th iteration called the test function of its id and the call returned
CallReturned(i) ==
    /\ os \in {"Linux", "Windows"}
    /\ i <= Len(handed) /\ i <= Len(results)
    /\ tests[i] \in CatalogOf(os)
    /\ ~handed[i].raises

\* the probes the test function of the id issues in the environment, as
\* what subprocess.run does with each: a probe is issued only if the ones
\* before it let the function go on
IssuedProbes(device_os, test_id, env) ==
    IF device_os = "Linux"
    THEN {env.devices} \cup
         (IF ~check_adb_connection(env.devices) THEN {}
          ELSE CASE test_id = "battery.health" -> {env.battery}
                 [] test_id = "storage.health" ->
                       {env.df} \cup (IF run_adb_command(env.df).code # 0
                                      THEN {env.diskstats} ELSE {})
                 [] test_id = "sensors.test" -> {env.sensorservice}
                 [] OTHER ->
                       {env.wifi} \cup (IF run_adb_command(env.wifi).code = 0
                                        THEN {env.telephony} ELSE {}))
    ELSE CASE test_id = "battery.health" ->
                 {env.powercfg} \cup (IF run_command(env.powercfg).code = 0
                                      THEN {env.powershell} ELSE {})
           [] test_id = "storage.health" -> {env.wmic}
           [] OTHER -> {}

\* some issued probe came back with a nonzero exit code
SomeProbeFailed(device_os, test_id, env) ==
    \E raw \in IssuedProbes(device_os, test_id, env) :
        IF device_os = "Linux" THEN run_adb_command(raw).code # 0
        ELSE run_command(raw).code # 0

\* C15 as stated: in every test function, when a probe it issued returned a
\* nonzero exit code the outcome is an error, and nothing was extracted: the
\* outcome has no metrics.
C15_AsStated ==
    \A i \in 1..Len(results) :
        (CallReturned(i) /\ SomeProbeFailed(os, tests[i], handed[i])) =>
            /\ results[i].status = "error"
            /\ results[i].metrics = EmptyDict

\* the telephony probe timed out and the connectivity test went on with
\* mobile_data defaulted to False: a verdict of fail with metrics
C15_Witness ==
    /\ phase = "Completed"
    /\ Len(results) = 1
    /\ os = "Linux"
    /\ CallReturned(1)
    /\ tests[1] = "network.connectivity"
    /\ check_adb_connection(handed[1].devices)
    /\ handed[1].telephony = TimedOut
    /\ results[1].status = "fail"
    /\ results[1].metrics.mobile_data = FALSE

\* how many times `adb devices` was issued so far
DevicesProbeCount == Cardinality({k \in 1..Len(probeLog) : probeLog[k] = "devices"})

\* C16 as stated: in a run of run_android_diagnostics the connectivity check
\* is evaluated once, before any test, whatever the number of requested ids:
\* from the pre-flight check on, `adb devices` has been issued exactly once,
\* and no outcome of the loop is the no-device answer of a test function.
C16_AsStated ==
    (os = "Linux" /\ phase \in {"Executing", "Completed", "Unreachable"}) =>
        /\ DevicesProbeCount = 1
        /\ probeLog[1] = "devices"
        /\ \A i \in 1..Len(results) :
              results[i].explanation # "No Android device connected via ADB"

\* three tests ran after a pre-flight check that found a device: the check
\* was evaluated four times, and one test found the device gone
C16_Witness ==
    /\ os = "Linux"
    /\ phase = "Completed"
    /\ Len(tests) = 3
    /\ \A i \in 1..3 : tests[i] \in android_test_functions /\ ~handed[i].raises
    /\ DevicesProbeCount = 4
    /\ \E i \in 1..3 :
          /\ results[i].status = "error"
          /\ results[i].explanation = "No Android device connected via ADB"

\* C17 as stated: a probe that exceeds its timeout makes the gateway return
\* empty stdout, the timed-out stderr and exit code -1; the outcome of the
\* test that issued it is an error; and the loop goes on: every iteration
\* appends one outcome and leaves the earlier ones as they are.
C17_AsStated ==
    /\ run_adb_command(TimedOut) =
          [stdout |-> <<>>, stderr |-> Literal.timed_out_adb, code |-> -1]
    /\ run_command(TimedOut) =
          [stdout |-> <<>>, stderr |-> Literal.timed_out, code |-> -1]
    /\ phase = "Executing" => Len(results) = idx - 1
    /\ phase = "Completed" => Len(results) = Len(tests)
    /\ \A i \in 1..Len(results) :
          (CallReturned(i) /\ TimedOut \in IssuedProbes(os, tests[i], handed[i])) =>
              results[i].status = "error"

\* the telephony probe of the second of three tests timed out; the test
\* answered pass, and the tests before and after it passed too
C17_Witness ==
    /\ os = "Linux"
    /\ phase = "Completed"
    /\ Len(results) = 3
    /\ tests[2] = "network.connectivity"
    /\ CallReturned(2)
    /\ handed[2].telephony = TimedOut
    /\ TimedOut \in IssuedProbes(os, tests[2], handed[2])
    /\ results[2].status = "pass"
    /\ results[1].status = "pass" /\ results[3].status = "pass"

\* one advisory per rule the inputs of a battery outcome trigger, in the
\* order of the rules
TriggeredAdvisories(r) ==
    LET m == r.metrics
    IN (IF Lower(m.health) # Literal.good
        THEN <<"Consider battery replacement if issues persist">> ELSE <<>>)
       \o (IF m.temperature_celsius > 400
           THEN <<HighTemperatureAdvisory(m.temperature_celsius)>> ELSE <<>>)
       \o (IF m.temperature_celsius > 500
           THEN <<"Critical: Battery overheating detected">> ELSE <<>>)
       \o (IF m.level_percentage < 15 /\ Lower(m.status) # Literal.charging
           THEN <<"Battery level is low, consider charging">> ELSE <<>>)

\* C18: within one pass of the Android battery classifier the advisory list
\* only grows: after each rule the list before it is a prefix of the list
\* after it; the returned list is the last one and has one advisory per
\* triggered rule, in rule order.
C18_AdvisoriesAccumulate ==
    \A i \in 1..Len(results) :
        IsBatteryVerdict(results[i]) =>
            LET tr == TraceOf(results[i])
            IN /\ tr[1].advisories = <<>>
               /\ \A k \in 1..(Len(tr) - 1) :
                     /\ Len(tr[k + 1].advisories) >= Len(tr[k].advisories)
                     /\ SubSeq(tr[k + 1].advisories, 1, Len(tr[k].advisories))
                           = tr[k].advisories
               /\ results[i].advisories = tr[Len(tr)].advisories
               /\ results[i].advisories = TriggeredAdvisories(results[i])

\* an overheated battery of good health, charging: the advisory of the
\* > 40 rule is kept before the one of the > 50 rule
C18_Witness ==
    /\ phase = "Completed"
    /\ Len(results) = 1
    /\ IsBatteryVerdict(results[1])
    /\ results[1].metrics.temperature_celsius = 501
    /\ results[1].advisories =
          <<HighTemperatureAdvisory(501), "Critical: Battery overheating detected">>

\* C19: the Windows battery.health test answers pass or error only, whatever
\* the probes print; a pass reports health_percentage 84.0 and no advisories.
C19_WindowsBatteryPassOrError ==
    \A i \in 1..Len(results) :
        (os = "Windows" /\ results[i].test_id = "battery.health") =>
            /\ results[i].status \in {"pass", "error"}
            /\ results[i].status = "pass" =>
                  /\ results[i].metrics.health_percentage = 840
                  /\ results[i].advisories = <<>>

\* both probes succeeded and the outcome is a pass, the charge that
\* powershell printed being 95 percent
C19_Witness ==
    /\ os = "Windows"
    /\ phase = "Completed"
    /\ Len(results) = 1
    /\ CallReturned(1)
    /\ tests[1] = "battery.health"
    /\ results[1].status = "pass"
    /\ results[1].metrics.current_charge_percentage = Some(95)
    /\ results[1].metrics.health_percentage = 840

\* the summary of no outcomes
EmptySummary ==
    [total_tests |-> 0, passed |-> 0, warnings |-> 0, failed |-> 0, errors |-> 0,
     health_score |-> 0, overall_status |-> "healthy"]

\* C20: for a device whose os is none of Windows, Linux and Darwin,
\* run_diagnostics calls no runner and issues no probe, ends in no error, and
\* answers with no outcomes and the summary of no outcomes, however many ids
\* were requested; and outcomes exist only when the os is Windows or Linux.
C20_OtherOsEmptyResponse ==
    /\ os \notin {"Windows", "Linux", "Darwin"} =>
          /\ phase \in {"Init", "NoRunner"}
          /\ pc \in {"Dispatch", "Running", "Summarised", "Http200"}
          /\ summary # None => summary = Some(EmptySummary)
          /\ pc = "Http200" => summary = Some(EmptySummary)
    /\ os \notin {"Windows", "Linux"} =>
          results = <<>> /\ probeLog = <<>> /\ handed = <<>>
    /\ (pc = "Http200" /\ results # <<>>) => os \in {"Windows", "Linux"}

\* three ids were requested of a FreeBSD device and the empty response is out
C20_Witness ==
    /\ os = "FreeBSD"
    /\ Len(tests) = 3
    /\ pc = "Http200"
    /\ phase = "NoRunner"
    /\ results = <<>>
    /\ summary = Some(EmptySummary)

====
